---- MODULE Spec2Model ----
(***************************************************************************)
(* A model of the chat backend of simple-rag: the two chat endpoints       *)
(* (app/api/chat.py), the Vercel stream framing and multiplexer            *)
(* (app/api/routers/vercel_response.py) and the request-context and        *)
(* citation helpers (app/api/models.py).                                   *)
(*                                                                         *)
(* Python strings are sequences.  Tokens and text frames are sequences of  *)
(* single characters, so that JSON escaping is modelled character by       *)
(* character; every other string (message contents, URLs, the sources      *)
(* payload) is a sequence of lexemes, and string concatenation is \o.      *)
(* Python's None is the sentinel None below, which no string of the model  *)
(* equals.  A message's optional annotations are two fields: the flag      *)
(* annotations_is_none and the list annotations (empty when the flag is    *)
(* set).                                                                   *)
(***************************************************************************)
EXTENDS Integers, Sequences, FiniteSets, TLC

VARIABLES
    endpoint,           \* which route handles the request: "chat" | "chat_request" | "none"
    messages,           \* ChatData.messages of the request
    url_prefix,         \* os.getenv("FILESERVER_URL_PREFIX")
    pc,                 \* position of the request / of the function under check
    prompt,             \* last_message_content handed to the engine
    history,            \* get_history_messages()
    engineBuilt,        \* number of get_chat_engine() calls made for the request
    engineCalls,        \* number of astream_chat / achat invocations
    outcome,            \* what the handler gave the framework
    detail,             \* HTTPException.detail
    source_nodes,       \* response.source_nodes
    produced,           \* tokens yielded so far by response.async_response_gen()
    final_response,     \* _chat_response_generator's accumulator
    output,             \* the item the merged streamer handed to content_generator
    is_stream_started,  \* content_generator's flag
    frames,             \* everything content_generator has yielded to the transport
    disconnected,       \* what request.is_disconnected() would answer
    late,               \* how many frames were yielded while disconnected was already true
    gen,                \* position of _chat_response_generator
    exception,          \* the exception that escaped to the framework, or None
    arg,                \* argument of the pure function under check
    ret                 \* its return value

vars == << endpoint, messages, url_prefix, pc, prompt, history, engineBuilt,
           engineCalls, outcome, detail, source_nodes, produced, final_response,
           output, is_stream_started, frames, disconnected, late, gen, exception,
           arg, ret >>

(***************************************************************************)
(* Bounds of the model.                                                    *)
(***************************************************************************)
MaxTokenLen == 3    \* characters in one token (framing check)
MaxTokens == 3      \* tokens the engine yields in one stream
MaxMessages == 2    \* messages in one request
MaxAnnotations == 1 \* annotations on one message
MaxFiles == 2       \* files in one annotation (to_content check)
MaxPathLen == 2     \* components of a file_path below its root

None == << "None" >>

Truthy(v) == v # None /\ Len(v) > 0

RECURSIVE Concat(_)
Concat(ss) == IF Len(ss) = 0 THEN << >> ELSE Head(ss) \o Concat(Tail(ss))

\* sep.join(ss)
RECURSIVE Join(_, _)
Join(sep, ss) ==
    IF Len(ss) = 0 THEN << >>
    ELSE IF Len(ss) = 1 THEN Head(ss)
    ELSE Head(ss) \o sep \o Join(sep, Tail(ss))

SeqsUpTo(S, n) == UNION { [1..k -> S] : k \in 0..n }

Count(s, c) == Cardinality({ i \in 1..Len(s) : s[i] = c })

(***************************************************************************)
(* StreamFramer: VercelStreamResponse.convert_text / convert_data.         *)
(***************************************************************************)
TEXT_PREFIX == << "0:" >>
DATA_PREFIX == << "8:" >>

NL == "\n"
QUOTE == "\""
BACKSLASH == "\\"
TAB == "\t"

\* json.dumps of one character of a str (ensure_ascii default)
JsonEscapeChar(c) ==
    IF c = QUOTE THEN << BACKSLASH, QUOTE >>
    ELSE IF c = BACKSLASH THEN << BACKSLASH, BACKSLASH >>
    ELSE IF c = NL THEN << BACKSLASH, "n" >>
    ELSE IF c = TAB THEN << BACKSLASH, "t" >>
    ELSE << c >>

RECURSIVE JsonEscape(_)
JsonEscape(s) ==
    IF Len(s) = 0 THEN << >> ELSE JsonEscapeChar(Head(s)) \o JsonEscape(Tail(s))

\* json.dumps(token) for a str
JsonDumpsStr(s) == << QUOTE >> \o JsonEscape(s) \o << QUOTE >>

\* what only escapes newlines and double quotes would do
ConvertTextNoBackslash(token) ==
    LET esc(c) == IF c = QUOTE THEN << BACKSLASH, QUOTE >>
                  ELSE IF c = NL THEN << BACKSLASH, "n" >>
                  ELSE << c >>
    IN  TEXT_PREFIX \o << QUOTE >>
          \o Concat([ i \in 1..Len(token) |-> esc(token[i]) ])
          \o << QUOTE >> \o << NL >>

convert_text(token) == TEXT_PREFIX \o JsonDumpsStr(token) \o << NL >>

\* The decoder a client applies to the payload of a text frame (json.loads of a
\* JSON string): Undecodable when the text is no JSON string.
Undecodable == << "<invalid JSON>" >>

RECURSIVE JsonUnescape(_)
JsonUnescape(s) ==
    IF Len(s) = 0 THEN << >>
    ELSE IF Head(s) = QUOTE \/ Head(s) = NL \/ Head(s) = TAB THEN Undecodable
    ELSE IF Head(s) # BACKSLASH THEN
        LET rest == JsonUnescape(Tail(s))
        IN  IF rest = Undecodable THEN Undecodable ELSE << Head(s) >> \o rest
    ELSE IF Len(s) < 2 THEN Undecodable
    ELSE
        LET e == s[2]
            rest == JsonUnescape(SubSeq(s, 3, Len(s)))
            ch == IF e = "n" THEN NL
                  ELSE IF e = "t" THEN TAB
                  ELSE IF e = QUOTE THEN QUOTE
                  ELSE IF e = BACKSLASH THEN BACKSLASH
                  ELSE "?"
        IN  IF ch = "?" \/ rest = Undecodable THEN Undecodable
            ELSE << ch >> \o rest

JsonLoadsStr(s) ==
    IF Len(s) < 2 \/ s[1] # QUOTE \/ s[Len(s)] # QUOTE THEN Undecodable
    ELSE JsonUnescape(SubSeq(s, 2, Len(s) - 1))

\* The payload of a text frame: what lies between the prefix and the final newline.
TextPayload(frame) == SubSeq(frame, 2, Len(frame) - 1)

(***************************************************************************)
(* ContextAssembler: Annotation.to_content and the ChatData methods.       *)
(***************************************************************************)
Roles == { "user", "assistant", "system" }

LF == << "\n" >>

\* str(value) inside an f-string: a str is itself, a list of str is its repr
PyStr(content) ==
    IF content.type = "text" THEN content.value
    ELSE << "[" >>
           \o Join(<< ", " >>,
                   [ i \in 1..Len(content.value) |->
                       << "'" >> \o content.value[i] \o << "'" >> ])
           \o << "]" >>

\* the Markdown code fence (three backquotes), one lexeme
FENCE == "<fence>"

CsvBlock(file) == << FENCE, "csv", "\n" >> \o PyStr(file.content) \o << "\n", FENCE >>

IsCsv(file) == file.filetype = << "csv" >>

\* a to_content that keeps every file, whatever its filetype
to_content_any_filetype(annotation) ==
    IF annotation.type = "document_file" /\ Len(annotation.data.files) > 0
    THEN << "Use data from following CSV raw content", "\n" >>
           \o Join(LF, [ i \in 1..Len(annotation.data.files) |->
                           CsvBlock(annotation.data.files[i]) ])
    ELSE None

to_content(annotation) ==
    IF annotation.type = "document_file"
    THEN LET csv_files == SelectSeq(annotation.data.files, IsCsv)
         IN  IF Len(csv_files) > 0
             THEN << "Use data from following CSV raw content", "\n" >>
                    \o Join(LF, [ i \in 1..Len(csv_files) |-> CsvBlock(csv_files[i]) ])
             ELSE None
    ELSE None

\* filter(None, xs): the truthy items of xs
FilterNone(xs) == SelectSeq(xs, Truthy)

\* `not annotation_contents`: a filter object is truthy whatever it will yield
NotFilterObject(annotation_contents) == FALSE

EmptyChatError == << "ValueError", "There is not any message in the chat" >>

IsError(r) == Len(r) > 0 /\ r[1] = "ValueError"

AnnotationContents(message) ==
    FilterNone([ i \in 1..Len(message.annotations) |-> to_content(message.annotations[i]) ])

\* the loop over reversed(self.messages), at index i, counting down
RECURSIVE ReverseScan(_, _, _)
ReverseScan(msgs, i, message_content) ==
    IF i = 0 THEN message_content
    ELSE IF msgs[i].role = "user" /\ ~msgs[i].annotations_is_none
    THEN LET annotation_contents == AnnotationContents(msgs[i])
         IN  IF NotFilterObject(annotation_contents)
             THEN ReverseScan(msgs, i - 1, message_content)
             ELSE message_content \o LF \o Join(LF, annotation_contents)
    ELSE ReverseScan(msgs, i - 1, message_content)

\* the same loop over self.messages in request order
RECURSIVE ForwardScan(_, _, _)
ForwardScan(msgs, i, message_content) ==
    IF i > Len(msgs) THEN message_content
    ELSE IF msgs[i].role = "user" /\ ~msgs[i].annotations_is_none
    THEN message_content \o LF \o Join(LF, AnnotationContents(msgs[i]))
    ELSE ForwardScan(msgs, i + 1, message_content)

get_last_message_content_forward(msgs) ==
    IF Len(msgs) = 0 THEN EmptyChatError
    ELSE ForwardScan(msgs, 1, msgs[Len(msgs)].content)

\* a get_last_message_content without the emptiness check
get_last_message_content_unchecked(msgs) ==
    IF Len(msgs) = 0 THEN << >>
    ELSE ReverseScan(msgs, Len(msgs), msgs[Len(msgs)].content)

get_last_message_content(msgs) ==
    IF Len(msgs) = 0 THEN EmptyChatError
    ELSE ReverseScan(msgs, Len(msgs), msgs[Len(msgs)].content)

get_history_messages(msgs) ==
    [ i \in 1..(Len(msgs) - 1) |-> [ role |-> msgs[i].role, content |-> msgs[i].content ] ]

is_last_message_from_user(msgs) == msgs[Len(msgs)].role = "user"

(***************************************************************************)
(* CitationResolver: SourceNodes.get_url_from_metadata.  A path is the     *)
(* sequence of its components; an absolute path starts with "/".           *)
(***************************************************************************)
ROOT == "/"
CWD == << ROOT, "app" >>
DATA_DIR == << "data" >>

\* os.path.abspath
AbsPath(p) == IF Len(p) > 0 /\ p[1] = ROOT THEN p ELSE CWD \o p

RECURSIVE CommonLen(_, _)
CommonLen(p, q) ==
    IF Len(p) = 0 \/ Len(q) = 0 \/ Head(p) # Head(q) THEN 0
    ELSE 1 + CommonLen(Tail(p), Tail(q))

\* os.path.relpath(path, start), as a list of components
RelPath(path, start) ==
    LET p == AbsPath(path)
        s == AbsPath(start)
        k == CommonLen(p, s)
        rel == [ i \in 1..(Len(s) - k) |-> ".." ] \o SubSeq(p, k + 1, Len(p))
    IN  IF Len(rel) = 0 THEN << "." >> ELSE rel

\* the components joined by os.sep
PathStr(parts) == Join(<< "/" >>, [ i \in 1..Len(parts) |-> << parts[i] >> ])

\* a resolver that asks for private uploads before the pipeline id
get_url_private_first(metadata, prefix) ==
    IF Truthy(metadata.file_name) /\ Truthy(prefix)
    THEN IF (IF metadata.private = None THEN << "false" >> ELSE metadata.private) = << "true" >>
         THEN prefix \o << "/output/uploaded/" >> \o metadata.file_name
         ELSE IF Truthy(metadata.pipeline_id)
         THEN prefix \o << "/output/llamacloud/" >>
                \o metadata.pipeline_id \o << "$" >> \o metadata.file_name
         ELSE IF Truthy(metadata.file_path)
         THEN prefix \o << "/data/" >> \o PathStr(RelPath(metadata.file_path, AbsPath(DATA_DIR)))
         ELSE metadata.URL
    ELSE metadata.URL

\* metadata.get(k) is the field, None when the key is missing
get_url_from_metadata(metadata, prefix) ==
    IF Truthy(metadata.file_name) /\ Truthy(prefix)
    THEN IF Truthy(metadata.pipeline_id)
         THEN prefix \o << "/output/llamacloud/" >>
                \o metadata.pipeline_id \o << "$" >> \o metadata.file_name
         ELSE IF (IF metadata.private = None THEN << "false" >> ELSE metadata.private) = << "true" >>
         THEN prefix \o << "/output/uploaded/" >> \o metadata.file_name
         ELSE LET data_dir == AbsPath(DATA_DIR)
              IN  IF Truthy(metadata.file_path) /\ Truthy(data_dir)
                  THEN prefix \o << "/data/" >> \o PathStr(RelPath(metadata.file_path, data_dir))
                  ELSE metadata.URL
    ELSE metadata.URL

from_source_node(node) ==
    [ id |-> node.id, metadata |-> node.metadata, score |-> node.score,
      text |-> node.text, url |-> get_url_from_metadata(node.metadata, url_prefix) ]

\* json.dumps of one dumped citation, lexeme by lexeme
NodeJson(c) ==
    << "{\"id\": " >> \o c.id
      \o << ", \"metadata\": {\"file_name\": " >> \o c.metadata.file_name
      \o << "}, \"score\": " >> \o c.score
      \o << ", \"text\": " >> \o c.text
      \o << ", \"url\": " >> \o (IF c.url = None THEN << "null" >> ELSE c.url)
      \o << "}" >>

SourcesJson(nodes) ==
    << "{\"type\": \"sources\", \"data\": {\"nodes\": [" >>
      \o Join(<< ", " >>, [ i \in 1..Len(nodes) |-> NodeJson(from_source_node(nodes[i])) ])
      \o << "]}}" >>

convert_data(data_str) == DATA_PREFIX \o << "[" >> \o data_str \o << "]", NL >>

(***************************************************************************)
(* Input domains.                                                          *)
(***************************************************************************)
Chars == { "a", "n", QUOTE, BACKSLASH, NL, TAB }

TokenStrings == SeqsUpTo(Chars, MaxTokenLen)

FileContents ==
    { [ type |-> "text", value |-> << "a,b", "\n", "1,2" >> ],
      [ type |-> "text", value |-> << "x" >> ],
      [ type |-> "ref", value |-> << << "d1" >> >> ],
      [ type |-> "ref", value |-> << << "d1" >>, << "d2" >> >> ] }

FileTypes == { << "csv" >>, << "pdf" >> }

Files ==
    { [ id |-> << "1" >>, content |-> c, filename |-> << "x" >>, filesize |-> 10,
        filetype |-> t ] : c \in FileContents, t \in FileTypes }

DocumentFile(files) == [ type |-> "document_file", data |-> [ files |-> files ] ]

\* an annotation of a type to_content does not know; its data is never read
ImageAnnotation == [ type |-> "image", data |-> [ files |-> << >> ] ]

Annotations == { DocumentFile(fs) : fs \in SeqsUpTo(Files, MaxFiles) } \cup { ImageAnnotation }

File(t, c) ==
    [ id |-> << "1" >>, content |-> c, filename |-> << "x" >>, filesize |-> 10, filetype |-> t ]

CsvText == File(<< "csv" >>, [ type |-> "text", value |-> << "a,b", "\n", "1,2" >> ])
PdfRef == File(<< "pdf" >>, [ type |-> "ref", value |-> << << "d1" >> >> ])
CsvRef == File(<< "csv" >>, [ type |-> "ref", value |-> << << "d1" >> >> ])

\* the annotations a message of the request-context check may carry
MessageAnnotations ==
    { DocumentFile(<< CsvText >>), DocumentFile(<< PdfRef >>), DocumentFile(<< CsvRef >>),
      ImageAnnotation }

Message(r, c, as) ==
    [ role |-> r, content |-> c, annotations_is_none |-> FALSE, annotations |-> as ]

PlainMessage(r, c) ==
    [ role |-> r, content |-> c, annotations_is_none |-> TRUE, annotations |-> << >> ]

\* the content of the message at position i: positions are told apart
ContentAt(i) == << "q", ToString(i) >>

\* a message without its content
PlainShapes == { PlainMessage(r, << >>) : r \in Roles }

AnnotatedShapes ==
    PlainShapes
      \cup { Message(r, << >>, as) :
               r \in Roles, as \in SeqsUpTo(MessageAnnotations, MaxAnnotations) }

\* the request whose messages have the shapes sh, in order
RequestOf(sh) == [ i \in 1..Len(sh) |-> [ sh[i] EXCEPT !.content = ContentAt(i) ] ]

PathNames == { "app", "data", "f.pdf" }

FilePaths ==
    { << >> } \cup { << ROOT >> \o p : p \in SeqsUpTo(PathNames, MaxPathLen + 1) }
      \cup (SeqsUpTo(PathNames, MaxPathLen) \ { << >> })

Optional(S) == { None } \cup S

Metadatas ==
    [ file_name : Optional({ << >>, << "f.pdf" >> }),
      pipeline_id : Optional({ << >>, << "p1" >> }),
      private : Optional({ << "true" >>, << "false" >> }),
      file_path : Optional(FilePaths),
      URL : Optional({ << "http://site/page" >> }) ]

UrlPrefixes == Optional({ << >>, << "http://host" >> })

(***************************************************************************)
(* State shared by the specifications: what is idle while a pure function  *)
(* is checked.                                                             *)
(***************************************************************************)
handlerVars == << prompt, history, engineBuilt, engineCalls, outcome, detail, exception >>

streamVars == << source_nodes, produced, final_response, output, is_stream_started,
                 frames, disconnected, late, gen >>

HandlerIdle ==
    /\ prompt = None
    /\ history = << >>
    /\ engineBuilt = 0
    /\ engineCalls = 0
    /\ outcome = "none"
    /\ detail = None
    /\ exception = None

StreamIdle ==
    /\ source_nodes = << >>
    /\ produced = << >>
    /\ final_response = << >>
    /\ output = None
    /\ is_stream_started = FALSE
    /\ frames = << >>
    /\ disconnected = FALSE
    /\ late = 0
    /\ gen = "unstarted"

(***************************************************************************)
(* SpecText: convert_text applied to every token string.                   *)
(***************************************************************************)
InitText ==
    /\ endpoint = "none"
    /\ messages = << >>
    /\ url_prefix = None
    /\ pc = "convert_text"
    /\ arg \in TokenStrings
    /\ ret = None
    /\ HandlerIdle
    /\ StreamIdle

CallConvertText ==
    /\ pc = "convert_text"
    /\ ret' = convert_text(arg)
    /\ pc' = "returned"
    /\ UNCHANGED << endpoint, messages, url_prefix, arg, handlerVars, streamVars >>

NextText == CallConvertText

SpecText == InitText /\ [][NextText]_vars

(***************************************************************************)
(* SpecUrl: get_url_from_metadata applied to every metadata bag and        *)
(* configuration.                                                          *)
(***************************************************************************)
InitUrl ==
    /\ endpoint = "none"
    /\ messages = << >>
    /\ url_prefix \in UrlPrefixes
    /\ pc = "get_url_from_metadata"
    /\ arg \in Metadatas
    /\ ret = None
    /\ HandlerIdle
    /\ StreamIdle

CallGetUrl ==
    /\ pc = "get_url_from_metadata"
    /\ ret' = get_url_from_metadata(arg, url_prefix)
    /\ pc' = "returned"
    /\ UNCHANGED << endpoint, messages, url_prefix, arg, handlerVars, streamVars >>

NextUrl == CallGetUrl

SpecUrl == InitUrl /\ [][NextUrl]_vars

(***************************************************************************)
(* SpecAnnotation: to_content applied to every annotation.                 *)
(***************************************************************************)
InitAnnotation ==
    /\ endpoint = "none"
    /\ messages = << >>
    /\ url_prefix = None
    /\ pc = "to_content"
    /\ arg \in Annotations
    /\ ret = None
    /\ HandlerIdle
    /\ StreamIdle

CallToContent ==
    /\ pc = "to_content"
    /\ ret' = to_content(arg)
    /\ pc' = "returned"
    /\ UNCHANGED << endpoint, messages, url_prefix, arg, handlerVars, streamVars >>

NextAnnotation == CallToContent

SpecAnnotation == InitAnnotation /\ [][NextAnnotation]_vars

(***************************************************************************)
(* SpecContent: get_last_message_content applied to every request.         *)
(***************************************************************************)
InitContent ==
    /\ endpoint = "none"
    /\ \E k \in 0..MaxMessages : \E sh \in [1..k -> AnnotatedShapes] :
         messages = RequestOf(sh)
    /\ url_prefix = None
    /\ pc = "get_last_message_content"
    /\ arg = None
    /\ ret = None
    /\ HandlerIdle
    /\ StreamIdle

CallGetLastMessageContent ==
    /\ pc = "get_last_message_content"
    /\ ret' = get_last_message_content(messages)
    /\ pc' = IF IsError(ret') THEN "raised" ELSE "returned"
    /\ UNCHANGED << endpoint, messages, url_prefix, arg, handlerVars, streamVars >>

NextContent == CallGetLastMessageContent

SpecContent == InitContent /\ [][NextContent]_vars

(***************************************************************************)
(* Spec: one request to the streaming endpoint chat or to the              *)
(* non-streaming endpoint chat_request, the engine as a black box that     *)
(* yields tokens, ends or fails, and a client that may disconnect at any   *)
(* suspension point.                                                       *)
(***************************************************************************)
Tokens == { << "H", "i" >>, << QUOTE >>, << >> }

Node1 ==
    [ id |-> << "n1" >>,
      metadata |-> [ file_name |-> << "f.pdf" >>, pipeline_id |-> << "p1" >>,
                     private |-> None, file_path |-> None, URL |-> None ],
      score |-> << "0.5" >>,
      text |-> << "passage" >> ]

SourceNodeLists == { << >>, << Node1 >> }

\* exceptions are << class, message >>; str(e) is the message
EngineError == << "RuntimeError", "engine failed" >>

StorageEmptyDetail ==
    << "StorageContext is empty - call 'poetry run generate' to generate the storage first" >>

StorageEmptyError == << "HTTPException", "500: " >> \o StorageEmptyDetail

ErrStr(e) == Tail(e)

Init ==
    /\ endpoint \in { "chat", "chat_request" }
    /\ \E k \in 0..MaxMessages : \E sh \in [1..k -> PlainShapes] :
         messages = RequestOf(sh)
    /\ url_prefix \in { None, << "http://host" >> }
    /\ pc = "recv"
    /\ arg = None
    /\ ret = None
    /\ HandlerIdle
    /\ StreamIdle

\* chat's except clause: log, raise HTTPException(500, "Error in chat engine: {e}")
ChatFails(e) ==
    /\ outcome' = "http500"
    /\ detail' = << "Error in chat engine: " >> \o ErrStr(e)
    /\ pc' = "done"
    /\ UNCHANGED exception

\* chat: last_message_content and the history
ChatGetContent ==
    /\ pc = "recv"
    /\ endpoint = "chat"
    /\ LET r == get_last_message_content(messages)
       IN  \/ /\ IsError(r)
              /\ ChatFails(r)
              /\ UNCHANGED << prompt, history >>
           \/ /\ ~IsError(r)
              /\ prompt' = r
              /\ history' = get_history_messages(messages)
              /\ pc' = "get_chat_engine"
              /\ UNCHANGED << outcome, detail, exception >>
    /\ UNCHANGED << endpoint, messages, url_prefix, engineBuilt, engineCalls,
                    streamVars, arg, ret >>

\* chat: get_chat_engine(params) returns the engine or raises for a missing index
ChatGetEngine ==
    /\ pc = "get_chat_engine"
    /\ engineBuilt' = engineBuilt + 1
    /\ \/ /\ pc' = "astream_chat"
          /\ UNCHANGED << outcome, detail, exception >>
       \/ ChatFails(StorageEmptyError)
    /\ UNCHANGED << endpoint, messages, url_prefix, prompt, history, engineCalls,
                    streamVars, arg, ret >>

\* chat: await chat_engine.astream_chat(...), then return VercelStreamResponse
ChatAstream ==
    /\ pc = "astream_chat"
    /\ engineCalls' = engineCalls + 1
    /\ \/ /\ \E nodes \in SourceNodeLists : source_nodes' = nodes
          /\ outcome' = "response"
          /\ gen' = "tokens"
          /\ pc' = "pull"
          /\ UNCHANGED << detail, exception >>
       \/ /\ ChatFails(EngineError)
          /\ UNCHANGED << source_nodes, gen >>
    /\ UNCHANGED << endpoint, messages, url_prefix, prompt, history, engineBuilt,
                    produced, final_response, output, is_stream_started, frames,
                    disconnected, late, arg, ret >>

\* chat_request: Depends(get_chat_engine) is resolved before the handler's body
RequestDepends ==
    /\ pc = "recv"
    /\ endpoint = "chat_request"
    /\ engineBuilt' = engineBuilt + 1
    /\ \/ /\ pc' = "body"
          /\ UNCHANGED << outcome, detail >>
       \/ /\ outcome' = "http500"
          /\ detail' = StorageEmptyDetail
          /\ pc' = "done"
    /\ UNCHANGED << endpoint, messages, url_prefix, prompt, history, engineCalls,
                    exception, streamVars, arg, ret >>

\* chat_request: last_message_content and the history; nothing catches the error
RequestGetContent ==
    /\ pc = "body"
    /\ LET r == get_last_message_content(messages)
       IN  \/ /\ IsError(r)
              /\ exception' = r
              /\ outcome' = "unhandled"
              /\ pc' = "done"
              /\ UNCHANGED << prompt, history >>
           \/ /\ ~IsError(r)
              /\ prompt' = r
              /\ history' = get_history_messages(messages)
              /\ pc' = "achat"
              /\ UNCHANGED << outcome, exception >>
    /\ UNCHANGED << endpoint, messages, url_prefix, engineBuilt, engineCalls, detail,
                    streamVars, arg, ret >>

\* chat_request: await chat_engine.achat(...), then return the Result
RequestAchat ==
    /\ pc = "achat"
    /\ engineCalls' = engineCalls + 1
    /\ \/ /\ \E nodes \in SourceNodeLists, text \in Tokens :
               /\ source_nodes' = nodes
               /\ ret' = [ result |-> [ role |-> "assistant", content |-> text ],
                           nodes |-> [ i \in 1..Len(nodes) |-> from_source_node(nodes[i]) ] ]
          /\ outcome' = "result"
          /\ UNCHANGED exception
       \/ /\ exception' = EngineError
          /\ outcome' = "unhandled"
          /\ UNCHANGED << source_nodes, ret >>
    /\ pc' = "done"
    /\ UNCHANGED << endpoint, messages, url_prefix, prompt, history, engineBuilt, detail,
                    produced, final_response, output, is_stream_started, frames,
                    disconnected, late, gen, arg >>

\* `if not is_stream_started`: the blank frame goes first
NeedsBlankAlways(started) == TRUE

NeedsBlank(started) == ~started

AfterOutput == IF NeedsBlank(is_stream_started) THEN "yield_blank" ELSE "yield_output"

\* a merge that schedules the next pull while the last output is still unsent
PullReadyAhead == pc \in { "pull", "yield_output" }

\* the merged streamer re-schedules the generator only after the consumer has
\* taken the last output and asked for the next one
PullReady == pc = "pull"

\* the merged streamer pulls the generator: the engine yields one more token
PullToken ==
    /\ PullReady
    /\ gen = "tokens"
    /\ Len(produced) < MaxTokens
    /\ \E token \in Tokens :
         /\ produced' = Append(produced, token)
         /\ final_response' = final_response \o token
         /\ output' = convert_text(token)
    /\ pc' = AfterOutput
    /\ UNCHANGED << endpoint, messages, url_prefix, handlerVars, source_nodes,
                    is_stream_started, frames, disconnected, late, gen, arg, ret >>

\* the token sequence is exhausted: the generator yields the sources frame
PullSources ==
    /\ PullReady
    /\ gen = "tokens"
    /\ output' = convert_data(SourcesJson(source_nodes))
    /\ gen' = "sources_yielded"
    /\ pc' = AfterOutput
    /\ UNCHANGED << endpoint, messages, url_prefix, handlerVars, source_nodes, produced,
                    final_response, is_stream_started, frames, disconnected, late,
                    arg, ret >>

\* the generator is finished: the merged stream ends and so does the loop
PullStop ==
    /\ PullReady
    /\ gen = "sources_yielded"
    /\ gen' = "finished"
    /\ pc' = "closed"
    /\ UNCHANGED << endpoint, messages, url_prefix, handlerVars, source_nodes, produced,
                    final_response, output, is_stream_started, frames, disconnected,
                    late, arg, ret >>

\* a generator whose token loop sits in a try/finally that yields the sources
PullRaisesThenSources ==
    /\ pc = "pull"
    /\ gen = "tokens"
    /\ exception' = EngineError
    /\ gen' = "finished"
    /\ frames' = Append(frames, convert_data(SourcesJson(source_nodes)))
    /\ pc' = "aborted"
    /\ UNCHANGED << endpoint, messages, url_prefix, prompt, history, engineBuilt,
                    engineCalls, outcome, detail, source_nodes, produced, final_response,
                    output, is_stream_started, disconnected, late, arg, ret >>

\* async_response_gen raises: nothing in the generators catches it, and chat has
\* returned already
PullRaises ==
    /\ PullReady
    /\ gen = "tokens"
    /\ exception' = EngineError
    /\ gen' = "finished"
    /\ pc' = "aborted"
    /\ UNCHANGED << endpoint, messages, url_prefix, prompt, history, engineBuilt,
                    engineCalls, outcome, detail, source_nodes, produced, final_response,
                    output, is_stream_started, frames, disconnected, late, arg, ret >>

Forward(frame) ==
    /\ frames' = Append(frames, frame)
    /\ late' = IF disconnected THEN late + 1 ELSE late

\* yield cls.convert_text("")
YieldBlank ==
    /\ pc = "yield_blank"
    /\ is_stream_started' = TRUE
    /\ Forward(convert_text(<< >>))
    /\ pc' = "yield_output"
    /\ UNCHANGED << endpoint, messages, url_prefix, handlerVars, source_nodes, produced,
                    final_response, output, disconnected, gen, arg, ret >>

\* yield output
YieldOutput ==
    /\ pc = "yield_output"
    /\ Forward(output)
    /\ pc' = "is_disconnected"
    /\ UNCHANGED << endpoint, messages, url_prefix, handlerVars, source_nodes, produced,
                    final_response, output, is_stream_started, disconnected, gen,
                    arg, ret >>

\* a check that never answers true
BreaksNever(closed) == FALSE

\* `if await request.is_disconnected(): break`
Breaks(closed) == closed

CheckDisconnected ==
    /\ pc = "is_disconnected"
    /\ pc' = IF Breaks(disconnected) THEN "closed" ELSE "pull"
    /\ UNCHANGED << endpoint, messages, url_prefix, handlerVars, streamVars, arg, ret >>

\* the client goes away while the response is being streamed
ClientDisconnects ==
    /\ pc \in { "pull", "yield_blank", "yield_output", "is_disconnected" }
    /\ ~disconnected
    /\ disconnected' = TRUE
    /\ UNCHANGED << endpoint, messages, url_prefix, pc, handlerVars, source_nodes,
                    produced, final_response, output, is_stream_started, frames, late,
                    gen, arg, ret >>

Next ==
    \/ ChatGetContent
    \/ ChatGetEngine
    \/ ChatAstream
    \/ RequestDepends
    \/ RequestGetContent
    \/ RequestAchat
    \/ PullToken
    \/ PullSources
    \/ PullStop
    \/ PullRaises
    \/ YieldBlank
    \/ YieldOutput
    \/ CheckDisconnected
    \/ ClientDisconnects

Spec == Init /\ [][Next]_vars


(***************************************************************************)
(* Claims about the endpoints and the stream.                              *)
(***************************************************************************)
IsDataFrame(frame) == SubSeq(frame, 1, 1) = DATA_PREFIX

DataFrames == { i \in 1..Len(frames) : IsDataFrame(frames[i]) }

CompletedNormally == pc = "closed" /\ ~disconnected /\ exception = None

\* C1: when the engine yields t1..tn without error and the client never disconnects,
\* the frames of the completed stream are one empty text frame, the text frames of
\* t1..tn in production order, and one sources data frame, which is the last.
C1_CompleteStreamFrames ==
    CompletedNormally =>
        /\ frames = << convert_text(<< >>) >>
                      \o [ i \in 1..Len(produced) |-> convert_text(produced[i]) ]
                      \o << convert_data(SourcesJson(source_nodes)) >>
        /\ frames[1] = << "0:", QUOTE, QUOTE, NL >>
        /\ DataFrames = { Len(frames) }

C1_Witness ==
    /\ CompletedNormally
    /\ produced = << << "H", "i" >>, << QUOTE >> >>
    /\ Len(frames) = 4
    /\ frames[3] = << "0:", QUOTE, BACKSLASH, QUOTE, QUOTE, NL >>

\* C2 as stated: the disconnect check precedes every frame, so no frame is
\* forwarded once the client connection is closed.
C2_NoFrameAfterDisconnect == late = 0

\* C2 amended: the disconnect check follows each forwarded output.  After the client
\* disconnects at most the output of the iteration under way is still forwarded
\* (with the leading empty frame before it when it is the first output); the check
\* after it ends the stream, so no further pull starts once a frame was forwarded
\* to the closed connection.
C2_OneOutputAfterDisconnect ==
    /\ late <= 2
    /\ late = 2 => (Len(frames) = 2 /\ frames[1] = convert_text(<< >>))
    /\ (pc = "pull" /\ disconnected) => late = 0
    /\ (pc = "closed" /\ disconnected /\ gen = "tokens") => DataFrames = { }

C2_Witness ==
    /\ pc = "closed"
    /\ disconnected
    /\ late = 1
    /\ gen = "tokens"
    /\ Len(produced) = 3
    /\ Len(frames) = 4
    /\ frames[4] = convert_text(produced[3])

\* C3: an error raised while pulling a token, after astream_chat has returned, is
\* surfaced as an HTTP 500 failure whose message embeds the error.
C3_StreamErrorIsHttp500 ==
    pc = "aborted" =>
        /\ outcome = "http500"
        /\ detail = << "Error in chat engine: " >> \o ErrStr(exception)

\* C4: the engine (astream_chat / achat) is invoked only when the role of the last
\* message is user.
C4_EngineOnlyForUserTurn ==
    engineCalls > 0 => is_last_message_from_user(messages)

\* C5 as stated: a request with no messages is rejected, in both endpoints, before
\* the chat engine is constructed or invoked and before any frame is emitted.
C5_EmptyRejectedBeforeEngineBuilt ==
    Len(messages) = 0 =>
        /\ engineBuilt = 0
        /\ engineCalls = 0
        /\ frames = << >>

\* C5 amended: for a request with no messages get_last_message_content fails with
\* the empty-conversation error; the engine is never invoked and no frame is
\* emitted.  chat rejects the request before the engine is constructed;
\* chat_request has constructed it already, through Depends(get_chat_engine),
\* when the handler's body fails.
C5_EmptyRejectedBeforeEngineCall ==
    Len(messages) = 0 =>
        /\ engineCalls = 0
        /\ frames = << >>
        /\ outcome \notin { "response", "result" }
        /\ endpoint = "chat" =>
             /\ engineBuilt = 0
             /\ pc = "done" =>
                  /\ outcome = "http500"
                  /\ detail = << "Error in chat engine: ",
                                 "There is not any message in the chat" >>
        /\ (endpoint = "chat_request" /\ pc = "done" /\ outcome # "http500") =>
             /\ outcome = "unhandled"
             /\ exception = EmptyChatError

C5_Witness ==
    /\ Len(messages) = 0
    /\ endpoint = "chat_request"
    /\ pc = "done"
    /\ engineBuilt = 1
    /\ exception = EmptyChatError


IsPrefix(a, b) == Len(a) <= Len(b) /\ SubSeq(b, 1, Len(a)) = a

\* the frames of the tokens produced so far, after the synthetic empty frame
TextFramesSoFar ==
    << convert_text(<< >>) >> \o [ i \in 1..Len(produced) |-> convert_text(produced[i]) ]

\* C11: in every reachable state of a stream, ended by a disconnect or an engine
\* error included, the frames emitted so far are a prefix of the empty text frame,
\* the text frames of the tokens in order, and the sources frame; the empty frame is
\* emitted once, only when a first output exists and right before it (also when that
\* output is the sources frame), at most one data frame is emitted and nothing
\* follows it.
C11_FramesArePrefix ==
    /\ IsPrefix(frames, TextFramesSoFar \o << convert_data(SourcesJson(source_nodes)) >>)
    /\ DataFrames \subseteq { Len(frames) }
    /\ DataFrames # { } => gen # "tokens"
    /\ is_stream_started <=> frames # << >>
    /\ frames # << >> => (Len(produced) >= 1 \/ gen # "tokens")
    /\ Len(frames) = 1 => pc = "yield_output"

C11_Witness ==
    /\ pc = "closed"
    /\ disconnected
    /\ produced = << >>
    /\ Len(frames) = 2
    /\ frames[1] = << "0:", QUOTE, QUOTE, NL >>
    /\ IsDataFrame(frames[2])

\* C12: when pulling a token raises after k tokens were yielded, the stream ends
\* there: no sources frame and no further text frame is ever emitted; the client
\* has the leading empty frame and the k token frames, and no frame at all when the
\* error comes before the first token.
C12_ErrorTruncatesStream ==
    /\ [](pc = "aborted" =>
            /\ exception = EngineError
            /\ DataFrames = { }
            /\ frames = IF produced = << >> THEN << >> ELSE TextFramesSoFar)
    /\ [][pc = "aborted" => (pc' = "aborted" /\ frames' = frames)]_vars

C12_Witness ==
    /\ pc = "aborted"
    /\ produced = << << "H", "i" >>, << QUOTE >> >>
    /\ Len(frames) = 3
    /\ frames[3] = convert_text(<< QUOTE >>)

TokenFramesForwarded ==
    Cardinality({ i \in 2..Len(frames) : ~IsDataFrame(frames[i]) })

\* C13: in every reachable state of a stream the tokens pulled from the engine
\* exceed the token frames already handed to the transport by at most one: token
\* i+2 is never pulled before the frame of token i was forwarded, and the only
\* unsent frame is the one output in hand, never a queue.
C13_AtMostOneTokenAhead ==
    /\ Len(produced) - TokenFramesForwarded \in { 0, 1 }
    /\ Len(produced) - TokenFramesForwarded = 1 =>
         /\ pc \in { "yield_blank", "yield_output" }
         /\ output = convert_text(produced[Len(produced)])
    /\ pc \in { "pull", "is_disconnected" } => Len(produced) = TokenFramesForwarded

C13_Witness ==
    /\ pc = "yield_output"
    /\ Len(produced) = 3
    /\ TokenFramesForwarded = 2
    /\ Len(frames) = 3

(***************************************************************************)
(* Claims about the pure functions.                                        *)
(***************************************************************************)

\* the user messages of a request, and the latest of a set of positions
UserIndices(msgs) == { i \in 1..Len(msgs) : msgs[i].role = "user" }

Latest(S) == CHOOSE i \in S : \A j \in S : j <= i

AllRef(annotation) ==
    /\ annotation.type = "document_file"
    /\ Len(annotation.data.files) > 0
    /\ \A i \in 1..Len(annotation.data.files) : annotation.data.files[i].content.type = "ref"

LatestUserIsRefOnly(msgs) ==
    /\ UserIndices(msgs) # { }
    /\ LET m == msgs[Latest(UserIndices(msgs))]
       IN  /\ ~m.annotations_is_none
           /\ Len(m.annotations) > 0
           /\ \A i \in 1..Len(m.annotations) : AllRef(m.annotations[i])

\* the last content, with the annotation text of the latest position of S, if any
ContentFrom(msgs, S) ==
    IF S = { } THEN msgs[Len(msgs)].content
    ELSE msgs[Len(msgs)].content \o LF \o Join(LF, AnnotationContents(msgs[Latest(S)]))

IsCsvText(file) == file.filetype = << "csv" >> /\ file.content.type = "text"

\* C6: when the most recent user message carries document_file annotations whose
\* files are all ref-typed, get_last_message_content returns exactly the last
\* message's content, with nothing appended.
C6_RefOnlyUnchanged ==
    (pc = "returned" /\ LatestUserIsRefOnly(messages))
        => ret = messages[Len(messages)].content

C8_UrlPrecedence ==
    pc = "returned" =>
        LET m == arg
            configured == Truthy(url_prefix) /\ Truthy(m.file_name)
        IN  /\ ~Truthy(url_prefix) => ret = m.URL
            /\ ~Truthy(m.file_name) => ret = m.URL
            /\ (configured /\ Truthy(m.pipeline_id)) =>
                 ret = url_prefix \o << "/output/llamacloud/" >>
                         \o m.pipeline_id \o << "$" >> \o m.file_name
            /\ (configured /\ ~Truthy(m.pipeline_id) /\ m.private = << "true" >>) =>
                 ret = url_prefix \o << "/output/uploaded/" >> \o m.file_name
            /\ (configured /\ ~Truthy(m.pipeline_id) /\ m.private # << "true" >>) =>
                 ret = IF Truthy(m.file_path)
                       THEN url_prefix \o << "/data/" >>
                              \o PathStr(RelPath(m.file_path, CWD \o DATA_DIR))
                       ELSE m.URL

C8_Witness ==
    /\ pc = "returned"
    /\ url_prefix = << "http://host" >>
    /\ arg.file_name = << "f.pdf" >>
    /\ arg.pipeline_id = << "p1" >>
    /\ arg.private = << "true" >>
    /\ arg.file_path = << ROOT, "app", "data", "f.pdf" >>
    /\ ret = << "http://host", "/output/llamacloud/", "p1", "$", "f.pdf" >>

\* C9: in to_content for a document_file annotation only the files with filetype
\* csv and inline text content contribute; every other file adds nothing.
C9_OnlyCsvTextContributes ==
    (pc = "returned" /\ arg.type = "document_file") =>
        ret = to_content(DocumentFile(SelectSeq(arg.data.files, IsCsvText)))

\* C10: convert_text returns 0: then the JSON-escaped token then one newline; the
\* output holds exactly one newline, its last character, and JSON-decoding what
\* lies between the prefix and that newline yields the token.
C10_FramingRoundTrip ==
    pc = "returned" =>
        /\ SubSeq(ret, 1, 1) = TEXT_PREFIX
        /\ ret[Len(ret)] = NL
        /\ Count(ret, NL) = 1
        /\ JsonLoadsStr(TextPayload(ret)) = arg

C10_Witness ==
    /\ pc = "returned"
    /\ arg = << QUOTE, BACKSLASH, NL >>
    /\ ret = << "0:", QUOTE, BACKSLASH, QUOTE, BACKSLASH, BACKSLASH, BACKSLASH, "n", QUOTE, NL >>

====
